---- MODULE Spec2Model ----
(***************************************************************************)
(* Model of Code1.py: the nutrition target calculator (bmr, tdee,          *)
(* target_calories, protein_target), the plan generator                    *)
(* (generate_day_plan, generate_week_plan), the aggregator (totals) and    *)
(* the Streamlit script that holds the plans in st.session_state.          *)
(*                                                                         *)
(* Numbers.  weight is a Python float entered with two decimals; it is     *)
(* kept here in hundredths of a kilogram.  The float factors 1.15, 0.8,    *)
(* 1.2, 1.375, 1.55, 1.725 are IEEE-754 doubles; FloatMulTrunc computes    *)
(* int(x * factor) for an integer x as the double product does.            *)
(* Strings.  Meal and widget names are written in ASCII.                   *)
(***************************************************************************)
EXTENDS Integers, Sequences, FiniteSets, TLC

VARIABLES
    weight, height, age, gender, activity, goal,   \* profile widgets
    bmr_val, tdee_val, target_kcal, protein_goal,  \* profile tab results
    rng,                                           \* state of the random module
    catalog,                                       \* the meal database read by the generator
    used, plan, idx, pc, result,                   \* one call of generate_day_plan
    week, first,                                   \* generate_week_plan; the earlier of two seeded calls
    session_state, interaction,                    \* st.session_state; what caused the latest script run
    day_totals, week_totals,                       \* totals computed by the latest script run
    agg                                            \* inputs and outputs of totals

vars == << weight, height, age, gender, activity, goal,
           bmr_val, tdee_val, target_kcal, protein_goal,
           rng, catalog, used, plan, idx, pc, result, week, first,
           session_state, interaction, day_totals, week_totals, agg >>

profileVars == << weight, height, age, gender, activity, goal >>
targetVars  == << bmr_val, tdee_val, target_kcal, protein_goal >>
callVars    == << used, plan, idx, pc, result, week, first >>
uiVars      == << session_state, interaction, day_totals, week_totals >>

-----------------------------------------------------------------------------
(* Bounds of the model *)

WeightStep == 250     \* grid step of the weights tried, in hundredths of a kg
HeightStep == 5       \* grid step of the heights tried, in cm
AgeStep    == 2       \* grid step of the ages tried, in years
RngPeriod  == 5       \* period of the modelled random stream
MaxLen     == 2       \* longest meal sequence handed to totals
PoolSize   == 4       \* number of catalog meals the sequences are built from

-----------------------------------------------------------------------------
(* ENUMS & MODELS *)

Goal == {"MUSKELAUFBAU", "ABNEHMEN"}

Meal(name, calories, protein, carbs, fat) ==
    [name |-> name, calories |-> calories, protein |-> protein,
     carbs |-> carbs, fat |-> fat]

\* the categories taken in sorted key order instead of insertion order
CategoryOrderSorted == << "breakfast", "dinner", "lunch", "snack" >>

(* MEAL DATABASE: a dict; CategoryOrder is its insertion order *)
CategoryOrder == << "breakfast", "lunch", "dinner", "snack" >>

MEALS ==
    [breakfast |-> << Meal("Haferflocken mit Beeren", 500, 30, 55, 15),
                      Meal("Skyr mit Nuessen", 480, 40, 35, 18),
                      Meal("Ruehrei & Vollkornbrot", 520, 35, 40, 20) >>,
     lunch     |-> << Meal("Haehnchen & Reis", 700, 45, 70, 15),
                      Meal("Lachs & Kartoffeln", 720, 40, 50, 30),
                      Meal("Rinderhack & Quinoa", 680, 42, 55, 25) >>,
     dinner    |-> << Meal("Putenbrust & Gemuese", 600, 45, 30, 20),
                      Meal("Tofu-Gemuese-Pfanne", 580, 35, 40, 22),
                      Meal("Omelette & Salat", 550, 40, 20, 25) >>,
     snack     |-> << Meal("Proteinshake", 250, 30, 10, 5),
                      Meal("Huettenkaese & Obst", 280, 25, 20, 8),
                      Meal("Nuesse & Apfel", 300, 10, 25, 20) >>]

-----------------------------------------------------------------------------
(* CALCULATIONS *)

\* int(): truncation toward zero of the rational num/den, den > 0
Trunc(num, den) ==
    IF num >= 0 THEN num \div den ELSE -((-num) \div den)

RECURSIVE Pow2Floor(_)
\* the largest power of two that is <= n, n >= 1
Pow2Floor(n) == IF n < 2 THEN 1 ELSE 2 * Pow2Floor(n \div 2)

\* A float literal: the decimal num/den (lowest terms) and err, the sign
\* and size of (decimal - double) in units of 2^-52 / den.
Float(num, den, err) == [num |-> num, den |-> den, err |-> err]

F_1_15  == Float(23, 20, 8)
F_0_8   == Float(4, 5, -1)
F_1_2   == Float(6, 5, 1)
F_1_375 == Float(11, 8, 0)
F_1_55  == Float(31, 20, -4)
F_1_725 == Float(69, 40, -16)

\* int(x * f) for an integer x >= 0 and a double f: the double product is the
\* exact product rounded to nearest.  Off an integer the exact product is at
\* least 1/den away from one, so rounding cannot cross it.  On an integer N
\* a double below its decimal puts the exact product j*err/2^52 under N, and
\* the rounding returns N only when that is at most half the spacing of the
\* doubles under N.
FloatMulTrunc(x, f) ==
    IF (x * f.num) % f.den # 0 \/ f.err <= 0 \/ x = 0
    THEN Trunc(x * f.num, f.den)
    ELSE LET N == (x * f.num) \div f.den
             j == x \div f.den
             p == Pow2Floor(N)
             half2 == IF N = p THEN p \div 2 ELSE p
         IN  IF 2 * j * f.err <= half2 THEN N ELSE N - 1

\* bmr(weight, height, age, gender); w100 is the weight in hundredths
bmr(w100, h, a, g) ==
    Trunc(10 * w100 + 625 * h - 500 * a
            + 100 * (IF g = "Maennlich" THEN 5 ELSE -161), 100)

tdee(bmr_value, act) == FloatMulTrunc(bmr_value, act)

\* the two goal factors exchanged
target_calories_swapped(gl, tdee_value) ==
    FloatMulTrunc(tdee_value, IF gl = "MUSKELAUFBAU" THEN F_0_8 ELSE F_1_15)

target_calories(gl, tdee_value) ==
    FloatMulTrunc(tdee_value, IF gl = "MUSKELAUFBAU" THEN F_1_15 ELSE F_0_8)

\* int(weight * 2.2), int(weight * 1.8): both doubles lie above their
\* decimals and a two-decimal weight times them is an integer only for an
\* integral weight, so the truncation is that of the exact product
protein_target(w100, gl) ==
    Trunc(w100 * (IF gl = "MUSKELAUFBAU" THEN 22 ELSE 18), 1000)

-----------------------------------------------------------------------------
(* Profile widgets *)

WeightMin == 4000
WeightMax == 20000
HeightMin == 140
HeightMax == 220
AgeMin    == 14
AgeMax    == 90

Genders == {"Maennlich", "Weiblich"}

ActivityOptions ==
    { << "Kaum aktiv", F_1_2 >>, << "Leicht aktiv", F_1_375 >>,
      << "Mittel aktiv", F_1_55 >>, << "Sehr aktiv", F_1_725 >> }

\* the values the widgets show before any edit
DefaultProfile ==
    [weight |-> 8000, height |-> 180, age |-> 30, gender |-> "Maennlich",
     activity |-> << "Kaum aktiv", F_1_2 >>, goal |-> "MUSKELAUFBAU"]

Grid(lo, hi, step) == { lo + i * step : i \in 0 .. ((hi - lo) \div step) }

\* the profiles the calculator is tried on
GridProfiles ==
    [weight : Grid(WeightMin, WeightMax, WeightStep),
     height : Grid(HeightMin, HeightMax, HeightStep),
     age : Grid(AgeMin, AgeMax, AgeStep),
     gender : Genders, activity : ActivityOptions, goal : Goal]

\* the four assignments of the profile tab
ProfileTab(p) ==
    LET b == bmr(p.weight, p.height, p.age, p.gender)
        t == tdee(b, p.activity[2])
    IN  [bmr_val |-> b, tdee_val |-> t,
         target_kcal |-> target_calories(p.goal, t),
         protein_goal |-> protein_target(p.weight, p.goal)]

-----------------------------------------------------------------------------
(* The random module *)

\* the sizes of the categories of the shipped catalog
CategorySizes == { Len(MEALS[k]) : k \in DOMAIN MEALS }

\* the values one draw of the generator can take
Draws == 0 .. ((CHOOSE n \in CategorySizes : \A m \in CategorySizes : m <= n) - 1)

\* The generator is a deterministic stream of draws fixed by its seed: its
\* state is the stream (of period RngPeriod) and the position in it.
RngStates == [stream : [1 .. RngPeriod -> Draws], pos : 1 .. RngPeriod]

\* a freshly seeded generator stands at the start of its stream
FreshRngStates == { r \in RngStates : r.pos = 1 }

RandBelow(r, n) == r.stream[r.pos] % n

Advance(r) == [r EXCEPT !.pos = (r.pos % RngPeriod) + 1]

\* random.choice(options) of a non-empty sequence
choice(options, r) == options[RandBelow(r, Len(options)) + 1]

-----------------------------------------------------------------------------
(* PLAN GENERATION *)

\* catalogs whose categories share names, beside the shipped one
SharedNameCatalog ==
    [breakfast |-> << Meal("Omelette & Salat", 550, 40, 20, 25) >>,
     lunch     |-> << Meal("Haehnchen & Reis", 700, 45, 70, 15) >>,
     dinner    |-> << Meal("Omelette & Salat", 550, 40, 20, 25) >>,
     snack     |-> << Meal("Proteinshake", 250, 30, 10, 5) >>]

PartlySharedCatalog ==
    [breakfast |-> << Meal("Omelette & Salat", 550, 40, 20, 25),
                      Meal("Skyr mit Nuessen", 480, 40, 35, 18) >>,
     lunch     |-> << Meal("Haehnchen & Reis", 700, 45, 70, 15),
                      Meal("Skyr mit Nuessen", 480, 40, 35, 18) >>,
     dinner    |-> << Meal("Omelette & Salat", 550, 40, 20, 25) >>,
     snack     |-> << Meal("Proteinshake", 250, 30, 10, 5),
                      Meal("Haehnchen & Reis", 700, 45, 70, 15) >>]

Catalogs == { MEALS, SharedNameCatalog, PartlySharedCatalog }

\* MEALS.values(): the categories in insertion order
Values(cat) == [i \in 1 .. Len(CategoryOrder) |-> cat[CategoryOrder[i]]]

Names(category) == { category[i].name : i \in 1 .. Len(category) }

\* used kept from the previous call instead of a fresh set
Frame0Stale == [used |-> used, plan |-> << >>]

\* used = set(); plan = []
Frame0 == [used |-> {}, plan |-> << >>]

\* options = [m for m in category if m.name not in used]
Options(category, usedNames) ==
    SelectSeq(category, LAMBDA m : m.name \notin usedNames)

\* the loop body with a repeat-allowed fallback on an empty pool
LoopBodyFallback(f, category) ==
    LET filtered == Options(category, f.used)
        options == IF filtered = << >> THEN category ELSE filtered
        meal == choice(options, f.rng)
    IN  [used |-> f.used \cup {meal.name},
         plan |-> Append(f.plan, meal),
         rng |-> Advance(f.rng),
         raised |-> FALSE]

\* One iteration of the for loop of generate_day_plan on the frame f (used,
\* plan, rng).  random.choice of an empty sequence raises IndexError before
\* it draws.
LoopBody(f, category) ==
    LET options == Options(category, f.used)
    IN  IF options = << >>
        THEN [f EXCEPT !.raised = TRUE]
        ELSE LET meal == choice(options, f.rng)
             IN  [used |-> f.used \cup {meal.name},
                  plan |-> Append(f.plan, meal),
                  rng |-> Advance(f.rng),
                  raised |-> FALSE]

RECURSIVE RunLoop(_, _, _)
RunLoop(f, categories, i) ==
    IF i > Len(categories) \/ f.raised
    THEN f
    ELSE RunLoop(LoopBody(f, categories[i]), categories, i + 1)

\* generate_day_plan() reading the catalog cat and the generator state r:
\* the plan returned (or raised = TRUE) and the generator state left
generate_day_plan(cat, r) ==
    RunLoop([used |-> Frame0.used, plan |-> Frame0.plan, rng |-> r,
             raised |-> FALSE], Values(cat), 1)

\* one day short
NumDaysShort == 7 - 1

\* for _ in range(7)
NumDays == 7

\* the names used on earlier days kept for the next day
WeekLoopBodyCarry(w, r) ==
    LET earlier == UNION { Names(w[i]) : i \in 1 .. Len(w) }
        d == RunLoop([used |-> earlier, plan |-> Frame0.plan, rng |-> r,
                      raised |-> FALSE], Values(MEALS), 1)
    IN  IF d.raised
        THEN [week |-> w, rng |-> d.rng, raised |-> TRUE]
        ELSE [week |-> Append(w, d.plan), rng |-> d.rng, raised |-> FALSE]

\* One iteration of the loop of generate_week_plan: w is the week so far
\* (raised once a day plan raised), r the generator state.
WeekLoopBody(w, r) ==
    LET d == generate_day_plan(MEALS, r)
    IN  IF d.raised
        THEN [week |-> w, rng |-> d.rng, raised |-> TRUE]
        ELSE [week |-> Append(w, d.plan), rng |-> d.rng, raised |-> FALSE]

RECURSIVE RunWeek(_, _)
RunWeek(st, n) ==
    IF n = 0 \/ st.raised THEN st
    ELSE RunWeek(WeekLoopBody(st.week, st.rng), n - 1)

\* generate_week_plan() from the generator state r
generate_week_plan(r) ==
    RunWeek([week |-> << >>, rng |-> r, raised |-> FALSE], NumDays)

\* a sum that leaves out the last meal
RECURSIVE SumOfButLast(_, _)
SumOfButLast(meals, field) ==
    IF Len(meals) <= 1 THEN 0
    ELSE meals[1][field] + SumOfButLast(Tail(meals), field)

\* totals(meals)
RECURSIVE SumOf(_, _)
SumOf(meals, field) ==
    IF meals = << >> THEN 0
    ELSE meals[1][field] + SumOf(Tail(meals), field)

totals(meals) ==
    [calories |-> SumOf(meals, "calories"),
     protein |-> SumOf(meals, "protein"),
     carbs |-> SumOf(meals, "carbs"),
     fat |-> SumOf(meals, "fat")]

-----------------------------------------------------------------------------
(* STREAMLIT UI: one run of the script *)

\* st.session_state.key = value
Put(ss, key, value) ==
    [k \in DOMAIN ss \cup {key} |-> IF k = key THEN value ELSE ss[k]]

\* session_state.day_plan = generate_day_plan() on the script state st
\* (ss, rng, raised); an exception ends the script run
AssignDayPlan(st) ==
    LET g == generate_day_plan(MEALS, st.rng)
    IN  IF g.raised
        THEN [ss |-> st.ss, rng |-> g.rng, raised |-> TRUE]
        ELSE [ss |-> Put(st.ss, "day_plan", g.plan), rng |-> g.rng,
              raised |-> FALSE]

\* session_state.week_plan = generate_week_plan()
AssignWeekPlan(st) ==
    LET g == generate_week_plan(st.rng)
    IN  IF g.raised
        THEN [ss |-> st.ss, rng |-> g.rng, raised |-> TRUE]
        ELSE [ss |-> Put(st.ss, "week_plan", g.week), rng |-> g.rng,
              raised |-> FALSE]

\* the day tab without the "not in st.session_state" test
DayTabAlwaysNew(ss, r, clicked) ==
    LET st0 == [ss |-> ss, rng |-> r, raised |-> FALSE]
        st1 == AssignDayPlan(st0)
        st2 == IF clicked /\ ~st1.raised THEN AssignDayPlan(st1) ELSE st1
    IN  [ss |-> st2.ss, rng |-> st2.rng, raised |-> st2.raised,
         day_totals |-> IF st2.raised THEN day_totals
                        ELSE totals(st2.ss["day_plan"])]

\* the day tab with the totals taken before the button is handled
DayTabStaleTotals(ss, r, clicked) ==
    LET st0 == [ss |-> ss, rng |-> r, raised |-> FALSE]
        st1 == IF "day_plan" \notin DOMAIN ss THEN AssignDayPlan(st0) ELSE st0
        st2 == IF clicked /\ ~st1.raised THEN AssignDayPlan(st1) ELSE st1
    IN  [ss |-> st2.ss, rng |-> st2.rng, raised |-> st2.raised,
         day_totals |-> IF st1.raised THEN day_totals
                        ELSE totals(st1.ss["day_plan"])]

\* with tab_day: ss is st.session_state, r the generator state, clicked the
\* value of the button "Neuer Tagesplan"
DayTab(ss, r, clicked) ==
    LET st0 == [ss |-> ss, rng |-> r, raised |-> FALSE]
        st1 == IF "day_plan" \notin DOMAIN ss THEN AssignDayPlan(st0) ELSE st0
        st2 == IF clicked /\ ~st1.raised THEN AssignDayPlan(st1) ELSE st1
    IN  [ss |-> st2.ss, rng |-> st2.rng, raised |-> st2.raised,
         day_totals |-> IF st2.raised THEN day_totals
                        ELSE totals(st2.ss["day_plan"])]

\* with tab_week: clicked is the value of the button "Wochenplan erstellen"
WeekTab(ss, r, clicked) ==
    LET st0 == [ss |-> ss, rng |-> r, raised |-> FALSE]
        st1 == IF clicked THEN AssignWeekPlan(st0) ELSE st0
    IN  [ss |-> st1.ss, rng |-> st1.rng, raised |-> st1.raised,
         week_totals |->
            IF st1.raised THEN week_totals
            ELSE IF "week_plan" \in DOMAIN st1.ss
                 THEN [i \in 1 .. Len(st1.ss["week_plan"]) |->
                          totals(st1.ss["week_plan"][i])]
                 ELSE << >>]

\* the profiles a session switches between
SessionProfiles ==
    { DefaultProfile,
      [weight |-> 8000, height |-> 181, age |-> 31, gender |-> "Maennlich",
       activity |-> << "Mittel aktiv", F_1_55 >>, goal |-> "MUSKELAUFBAU"],
      [weight |-> 6250, height |-> 165, age |-> 45, gender |-> "Weiblich",
       activity |-> << "Leicht aktiv", F_1_375 >>, goal |-> "ABNEHMEN"] }

CurrentProfile ==
    [weight |-> weight, height |-> height, age |-> age, gender |-> gender,
     activity |-> activity, goal |-> goal]

SetProfile(p) ==
    /\ weight' = p.weight /\ height' = p.height /\ age' = p.age
    /\ gender' = p.gender /\ activity' = p.activity /\ goal' = p.goal

SetTargets(t) ==
    /\ bmr_val' = t.bmr_val /\ tdee_val' = t.tdee_val
    /\ target_kcal' = t.target_kcal /\ protein_goal' = t.protein_goal

\* One run of the script, top to bottom, with the widget values p and the
\* two button values.
Script(p, kind, newDayClicked, weekClicked) ==
    \E d \in { DayTab(session_state, rng, newDayClicked) } :
    \E w \in { IF d.raised
                THEN [ss |-> d.ss, rng |-> d.rng, raised |-> TRUE,
                      week_totals |-> week_totals]
                ELSE WeekTab(d.ss, d.rng, weekClicked) } :
        /\ SetProfile(p)
        /\ SetTargets(ProfileTab(p))
        /\ session_state' = w.ss
        /\ rng' = w.rng
        /\ day_totals' = d.day_totals
        /\ week_totals' = w.week_totals
        /\ interaction' = kind
        /\ UNCHANGED << catalog, callVars, agg >>

FirstRender ==
    /\ interaction = "none_yet"
    /\ Script(CurrentProfile, "first_render", FALSE, FALSE)

ProfileEdit ==
    /\ interaction # "none_yet"
    /\ \E p \in SessionProfiles \ {CurrentProfile} :
          Script(p, "profile_edit", FALSE, FALSE)

Redraw ==
    /\ interaction # "none_yet"
    /\ Script(CurrentProfile, "redraw", FALSE, FALSE)

NewDayPlan ==
    /\ interaction # "none_yet"
    /\ Script(CurrentProfile, "new_day", TRUE, FALSE)

BuildWeekPlan ==
    /\ interaction # "none_yet"
    /\ Script(CurrentProfile, "week", FALSE, TRUE)

-----------------------------------------------------------------------------
(* Initial values *)

NoTargets == [bmr_val |-> 0, tdee_val |-> 0, target_kcal |-> 0, protein_goal |-> 0]

NoTotals == [calories |-> 0, protein |-> 0, carbs |-> 0, fat |-> 0]

IdleRng == [stream |-> [i \in 1 .. RngPeriod |-> 0], pos |-> 1]

IdleAgg ==
    [xs |-> << >>, ys |-> << >>, shuffled |-> << >>, done |-> FALSE,
     t_xs |-> NoTotals, t_ys |-> NoTotals, t_cat |-> NoTotals,
     t_shuffled |-> NoTotals]

InitProfile(p) ==
    /\ weight = p.weight /\ height = p.height /\ age = p.age
    /\ gender = p.gender /\ activity = p.activity /\ goal = p.goal
    /\ bmr_val = NoTargets.bmr_val /\ tdee_val = NoTargets.tdee_val
    /\ target_kcal = NoTargets.target_kcal
    /\ protein_goal = NoTargets.protein_goal

InitCall(r) ==
    /\ used = {} /\ plan = << >> /\ idx = 0 /\ pc = "idle" /\ result = << >>
    /\ week = << >>
    /\ first = [seed |-> r, done |-> FALSE, result |-> << >>, pc |-> "idle"]

InitUI ==
    /\ session_state = << >> /\ interaction = "none_yet"
    /\ day_totals = NoTotals /\ week_totals = << >>

\* the session: a fresh process, default widgets, an empty session state
Init ==
    /\ InitProfile(DefaultProfile)
    /\ rng \in FreshRngStates
    /\ catalog = MEALS
    /\ InitCall(IdleRng)
    /\ InitUI
    /\ agg = IdleAgg

Next == FirstRender \/ ProfileEdit \/ Redraw \/ NewDayPlan \/ BuildWeekPlan

Spec == Init /\ [][Next]_vars

-----------------------------------------------------------------------------
(* The calculator on the grid of valid profiles *)

InitCalc ==
    /\ \E p \in GridProfiles : InitProfile(p)
    /\ rng = IdleRng
    /\ catalog = MEALS
    /\ InitCall(IdleRng)
    /\ InitUI
    /\ agg = IdleAgg

\* lines 143-146 of the script
ComputeTargets ==
    /\ pc = "idle"
    /\ SetTargets(ProfileTab(CurrentProfile))
    /\ pc' = "targets"
    /\ UNCHANGED << profileVars, rng, catalog, used, plan, idx, result, week,
                    first, uiVars, agg >>

NextCalc == ComputeTargets

SpecCalc == InitCalc /\ [][NextCalc]_vars

-----------------------------------------------------------------------------
(* One call of generate_day_plan, statement by statement *)

InitDay ==
    /\ InitProfile(DefaultProfile)
    /\ rng \in RngStates
    /\ catalog \in Catalogs
    /\ InitCall(rng)
    /\ InitUI
    /\ agg = IdleAgg

\* used = set(); plan = []
Call ==
    /\ pc = "idle"
    /\ used' = Frame0.used
    /\ plan' = Frame0.plan
    /\ idx' = 1
    /\ pc' = "loop"
    /\ UNCHANGED << profileVars, targetVars, rng, catalog, result, week,
                    first, uiVars, agg >>

\* the body of the for loop on the next category
Iterate ==
    /\ pc = "loop"
    /\ idx <= Len(Values(catalog))
    /\ \E f \in { LoopBody([used |-> used, plan |-> plan, rng |-> rng,
                            raised |-> FALSE], Values(catalog)[idx]) } :
          IF f.raised
          THEN /\ pc' = "raised"
               /\ UNCHANGED << used, plan, rng, idx >>
          ELSE /\ used' = f.used
               /\ plan' = f.plan
               /\ rng' = f.rng
               /\ idx' = idx + 1
               /\ pc' = pc
    /\ UNCHANGED << profileVars, targetVars, catalog, result, week, first,
                    uiVars, agg >>

\* return plan
Return ==
    /\ pc = "loop"
    /\ idx > Len(Values(catalog))
    /\ result' = plan
    /\ pc' = "returned"
    /\ UNCHANGED << profileVars, targetVars, rng, catalog, used, plan, idx,
                    week, first, uiVars, agg >>

NextDay == Call \/ Iterate \/ Return

SpecDay == InitDay /\ [][NextDay]_vars

\* A second call after the generator is seeded as it was for the first:
\* the outcome of the first call is kept for comparison.
Reseed ==
    /\ pc \in {"returned", "raised"}
    /\ ~first.done
    /\ first' = [first EXCEPT !.done = TRUE, !.result = result, !.pc = pc]
    /\ rng' = first.seed
    /\ result' = << >>
    /\ pc' = "idle"
    /\ UNCHANGED << profileVars, targetVars, catalog, used, plan, idx, week,
                    uiVars, agg >>

NextSeed == Call \/ Iterate \/ Return \/ Reseed

SpecSeed == InitDay /\ [][NextSeed]_vars

-----------------------------------------------------------------------------
(* One call of generate_week_plan, day by day *)

InitWeek ==
    /\ InitProfile(DefaultProfile)
    /\ rng \in RngStates
    /\ catalog = MEALS
    /\ InitCall(rng)
    /\ InitUI
    /\ agg = IdleAgg

\* week = []
WeekCall ==
    /\ pc = "idle"
    /\ week' = << >>
    /\ idx' = 0
    /\ pc' = "week_loop"
    /\ UNCHANGED << profileVars, targetVars, rng, catalog, used, plan,
                    result, first, uiVars, agg >>

\* week.append(generate_day_plan())
WeekIterate ==
    /\ pc = "week_loop"
    /\ idx < NumDays
    /\ \E st \in { WeekLoopBody(week, rng) } :
          /\ week' = st.week
          /\ rng' = st.rng
          /\ idx' = IF st.raised THEN idx ELSE idx + 1
          /\ pc' = IF st.raised THEN "raised" ELSE pc
    /\ UNCHANGED << profileVars, targetVars, catalog, used, plan, result,
                    first, uiVars, agg >>

\* return week
WeekReturn ==
    /\ pc = "week_loop"
    /\ idx >= NumDays
    /\ result' = week
    /\ pc' = "returned"
    /\ UNCHANGED << profileVars, targetVars, rng, catalog, used, plan, idx,
                    week, first, uiVars, agg >>

NextWeek == WeekCall \/ WeekIterate \/ WeekReturn

SpecWeek == InitWeek /\ [][NextWeek]_vars

-----------------------------------------------------------------------------
(* totals on bounded meal sequences *)

\* the catalog as one sequence
AllMeals ==
    MEALS.breakfast \o MEALS.lunch \o MEALS.dinner \o MEALS.snack

MealPool == { AllMeals[i] : i \in 1 .. PoolSize }

MealSeqs == UNION { [1 .. n -> MealPool] : n \in 0 .. MaxLen }

Orderings(n) ==
    { q \in [1 .. n -> 1 .. n] : \A i, j \in 1 .. n : q[i] = q[j] => i = j }

InitTotals ==
    /\ InitProfile(DefaultProfile)
    /\ rng = IdleRng
    /\ catalog = MEALS
    /\ InitCall(IdleRng)
    /\ InitUI
    /\ \E xs \in MealSeqs, ys \in MealSeqs :
       \E q \in Orderings(Len(xs)) :
          agg = [IdleAgg EXCEPT !.xs = xs, !.ys = ys,
                                !.shuffled = [i \in 1 .. Len(xs) |-> xs[q[i]]]]

\* totals applied to both sequences, their concatenation and the reordering
Aggregate ==
    /\ ~agg.done
    /\ agg' = [agg EXCEPT !.done = TRUE,
                          !.t_xs = totals(agg.xs),
                          !.t_ys = totals(agg.ys),
                          !.t_cat = totals(agg.xs \o agg.ys),
                          !.t_shuffled = totals(agg.shuffled)]
    /\ UNCHANGED << profileVars, targetVars, rng, catalog, callVars, uiVars >>

NextTotals == Aggregate

SpecTotals == InitTotals /\ [][NextTotals]_vars

-----------------------------------------------------------------------------
(* Properties *)

\* the category order the plans are specified in
PlanOrder == << "breakfast", "lunch", "dinner", "snack" >>

\* a day plan: 4 meals, the i-th from the i-th category of the shipped
\* catalog, names pairwise distinct
IsDayPlan(p) ==
    /\ Len(p) = 4
    /\ \A i \in 1 .. 4 :
          \E k \in 1 .. Len(MEALS[PlanOrder[i]]) : p[i] = MEALS[PlanOrder[i]][k]
    /\ \A i, j \in 1 .. 4 : i # j => p[i].name # p[j].name

\* C1: with the shipped catalog a call of generate_day_plan never raises, the
\* candidate pool is non-empty at each of the four selection steps, and the
\* plan returned has 4 meals, the i-th from the i-th category in the order
\* breakfast, lunch, dinner, snack, with pairwise distinct names.
C1_DayPlanValid ==
    catalog = MEALS =>
        /\ pc # "raised"
        /\ (pc = "loop" /\ idx <= 4) =>
              Options(MEALS[PlanOrder[idx]], used) # << >>
        /\ pc = "returned" => IsDayPlan(result)

C1_Witness ==
    /\ catalog = MEALS
    /\ pc = "returned"
    /\ result = << MEALS.breakfast[3], MEALS.lunch[1], MEALS.dinner[2],
                   MEALS.snack[3] >>

\* C2: generate_week_plan never raises and returns exactly 7 day plans, each
\* of which is a day plan on its own.
C2_WeekPlanValid ==
    /\ pc # "raised"
    /\ pc = "returned" =>
          /\ Len(result) = 7
          /\ \A d \in 1 .. 7 : IsDayPlan(result[d])

C2_Witness ==
    /\ pc = "returned"
    /\ Len(result) = 7
    /\ result[1] # result[2]

FieldsOf(m) ==
    [calories |-> m.calories, protein |-> m.protein, carbs |-> m.carbs,
     fat |-> m.fat]

AddTotals(a, b) ==
    [calories |-> a.calories + b.calories, protein |-> a.protein + b.protein,
     carbs |-> a.carbs + b.carbs, fat |-> a.fat + b.fat]

\* C3: totals of the empty sequence are all 0, totals of a single meal are
\* its four fields, a reordering of a sequence has the same totals, and the
\* totals of a concatenation are the field-wise sum of the totals of its
\* parts (so totals is the field-wise sum over the sequence).
C3_TotalsAlgebra ==
    agg.done =>
        /\ agg.xs = << >> =>
              agg.t_xs = [calories |-> 0, protein |-> 0, carbs |-> 0, fat |-> 0]
        /\ Len(agg.xs) = 1 => agg.t_xs = FieldsOf(agg.xs[1])
        /\ agg.t_shuffled = agg.t_xs
        /\ agg.t_cat = AddTotals(agg.t_xs, agg.t_ys)

C3_Witness ==
    /\ agg.done
    /\ Len(agg.xs) = 2
    /\ agg.shuffled # agg.xs
    /\ Len(agg.ys) = 2
    /\ agg.t_cat.calories = 2200

\* C4: the targets are the chain of truncations of the documented formulas,
\* each taken in exact arithmetic on the truncated result of the one before.
C4_DocumentedFormulas ==
    pc = "targets" =>
        /\ bmr_val = Trunc(10 * weight + 625 * height - 500 * age
                             + 100 * (IF gender = "Maennlich" THEN 5 ELSE -161),
                           100)
        /\ tdee_val = Trunc(bmr_val * activity[2].num, activity[2].den)
        /\ target_kcal = Trunc(tdee_val * (IF goal = "MUSKELAUFBAU"
                                           THEN 115 ELSE 80), 100)
        /\ protein_goal = Trunc(weight * (IF goal = "MUSKELAUFBAU"
                                          THEN 22 ELSE 18), 1000)

\* The worked example of C4: 80 kg, 180 cm, 30 years, male, factor 1.55,
\* muscle gain gives 1780, 2759, 3172 and 176.
C4_Example ==
    (/\ pc = "targets" /\ weight = 8000 /\ height = 180 /\ age = 30
     /\ gender = "Maennlich" /\ activity[1] = "Mittel aktiv"
     /\ goal = "MUSKELAUFBAU")
    => (/\ bmr_val = 1780 /\ tdee_val = 2759 /\ target_kcal = 3172
        /\ protein_goal = 176)

\* C5: a second call of generate_day_plan made after the random module is
\* put back into the state it had before the first call ends as the first
\* did: the same plan, or the same failure.
C5_SameSeedSamePlan ==
    (first.done /\ pc \in {"returned", "raised"}) =>
        /\ pc = first.pc
        /\ result = first.result

C5_Witness ==
    /\ first.done
    /\ pc = "returned"
    /\ catalog = MEALS
    /\ result[1] = MEALS.breakfast[2]
    /\ result[4] = MEALS.snack[3]

\* the pool of the category the loop stands at is empty
PoolEmpty ==
    /\ pc = "loop"
    /\ idx <= Len(Values(catalog))
    /\ Names(Values(catalog)[idx]) \subseteq used

\* C6: when every name of the category the loop stands at is already used,
\* the call raises at that category and returns nothing; a plan is returned
\* only if no category was exhausted; and with one meal per category and a
\* name shared by two categories no run returns a plan.
C6_EmptyPoolRaises ==
    /\ [][PoolEmpty => (pc' = "raised" /\ result' = << >> /\ idx' = idx)]_vars
    /\ [](pc = "raised" =>
             /\ result = << >>
             /\ Names(Values(catalog)[idx]) \subseteq used)
    /\ [](pc = "returned" =>
             \A i \in 1 .. Len(Values(catalog)) :
                 ~(Names(Values(catalog)[i])
                      \subseteq { result[j].name : j \in 1 .. i - 1 }))
    /\ [](catalog = SharedNameCatalog => pc # "returned")

C6_Witness ==
    /\ catalog = SharedNameCatalog
    /\ pc = "raised"
    /\ idx = 3
    /\ result = << >>

HeldDayPlan ==
    IF "day_plan" \in DOMAIN session_state
    THEN session_state["day_plan"] ELSE << >>

HeldWeekPlan ==
    IF "week_plan" \in DOMAIN session_state
    THEN session_state["week_plan"] ELSE << >>

\* C7: the day plan exists from the first render on; afterwards it changes
\* only in a run in which "new day plan" fired, and the week plan changes
\* only in a run in which "build week plan" fired.
C7_PlansChangeOnlyOnTrigger ==
    /\ [](interaction # "none_yet" => "day_plan" \in DOMAIN session_state)
    /\ [][/\ HeldDayPlan' # HeldDayPlan =>
                \/ interaction' = "new_day"
                \/ (interaction = "none_yet" /\ interaction' = "first_render")
          /\ HeldWeekPlan' # HeldWeekPlan => interaction' = "week"]_vars

C7_Witness ==
    /\ interaction = "profile_edit"
    /\ "week_plan" \in DOMAIN session_state
    /\ HeldWeekPlan[1] # HeldDayPlan

RECURSIVE AdvanceBy(_, _)
AdvanceBy(r, n) == IF n = 0 THEN r ELSE AdvanceBy(Advance(r), n - 1)

\* the day plan drawn from the generator state r when the only names
\* excluded at a category are those of the same day's earlier meals
DrawnAfresh(day, r) ==
    /\ Len(day) = 4
    /\ \A i \in 1 .. 4 :
          day[i] = choice(Options(MEALS[PlanOrder[i]],
                                  { day[j].name : j \in 1 .. i - 1 }),
                          AdvanceBy(r, i - 1))

C9_SurplusAndDeficit ==
    pc = "targets" =>
        /\ bmr_val > 0
        /\ target_calories("MUSKELAUFBAU", tdee_val) > tdee_val
        /\ tdee_val > target_calories("ABNEHMEN", tdee_val)
        /\ target_calories("ABNEHMEN", tdee_val) > 0
        /\ target_kcal = target_calories(goal, tdee_val)

C9_Witness ==
    /\ pc = "targets"
    /\ goal = "ABNEHMEN"
    /\ gender = "Weiblich"
    /\ weight = WeightMin /\ height = HeightMin /\ age = AgeMax
    /\ target_kcal < tdee_val

\* the field-wise sums of a 4-meal plan, written out
PlanSums(p) ==
    [calories |-> p[1].calories + p[2].calories + p[3].calories + p[4].calories,
     protein |-> p[1].protein + p[2].protein + p[3].protein + p[4].protein,
     carbs |-> p[1].carbs + p[2].carbs + p[3].carbs + p[4].carbs,
     fat |-> p[1].fat + p[2].fat + p[3].fat + p[4].fat]

\* C10: after every script run the day totals are the sums of the day plan
\* held in the session state, and the totals of each week day are the sums
\* of that day of the held week plan (none while no week plan is held).
C10_TotalsOfHeldPlans ==
    interaction # "none_yet" =>
        /\ day_totals = PlanSums(HeldDayPlan)
        /\ Len(week_totals) = Len(HeldWeekPlan)
        /\ \A d \in 1 .. Len(HeldWeekPlan) :
              week_totals[d] = PlanSums(HeldWeekPlan[d])

C10_Witness ==
    /\ interaction = "new_day"
    /\ "week_plan" \in DOMAIN session_state
    /\ day_totals # week_totals[1]

====
